---- MODULE Spec2Model ----
(***************************************************************************)
(* Model of scripts/mdbook-mkdocs-sync.py (class MdBookMkDocsSync): the    *)
(* outline parser parse_summary with its helpers, the home-page test       *)
(* _is_home_page, and the navigation merger _update_nav_in_place.          *)
(*                                                                         *)
(* A Python str is a sequence of one-character strings.  A navigation      *)
(* tree is built from three kinds of node: Str(s) for a bare string,       *)
(* Map(k, v) for a single-key dict {k: v}, Lst(xs) for a list.             *)
(***************************************************************************)
EXTENDS Integers, Sequences, FiniteSets, TLC

VARIABLES
    lines,                  \* f.readlines() of SUMMARY.md
    line_num,               \* parse_summary: loop counter
    nav,                    \* parse_summary: the tree being built / returned
    current_section_name,   \* <<>> is None, <<name>> is the str name
    section_items,          \* parse_summary: entries of the open section
    home_page_found,
    processed_lines,        \* 1-indexed lines consumed as children
    changes,                \* self.changes
    pc,                     \* where the program is
    mkdocs,                 \* text of mkdocs.yml
    contents,               \* every text mkdocs.yml has held, in order
    path_arg,               \* argument of a call of _is_home_page
    home_result,            \* what that call returned
    returned,               \* the trees earlier calls of parse_summary returned
    files,                  \* the files that exist
    summary,                \* text of SUMMARY.md
    rename_files,           \* self.rename_files
    dry_run,                \* self.dry_run
    effects,                \* every write and rename done, in order
    displayed,              \* the notes run has printed
    nav_yaml,               \* <<>> until yaml.dump is called, then <<its result>>
    runs,                   \* the runs that update mkdocs.yml at the same time
    exit_code               \* what run returned

\* the files, the flags and the outcome of a run
run_vars ==
    <<files, summary, rename_files, dry_run, effects, displayed, nav_yaml,
      exit_code, runs>>

vars == <<lines, line_num, nav, current_section_name, section_items,
          home_page_found, processed_lines, changes, pc, mkdocs, contents,
          path_arg, home_result, returned, run_vars>>

(***************************************************************************)
(* Bounds                                                                  *)
(***************************************************************************)
MaxLines == 3

MaxDocLines == 4

MaxMerges == 2

(***************************************************************************)
(* Python str operations                                                   *)
(***************************************************************************)
Whitespace == {" ", "\t", "\n", "\r"}

UpperCase == <<"A","B","C","D","E","F","G","H","I","J","K","L","M","N","O","P","Q","R","S","T","U","V","W","X","Y","Z">>

LowerCase == <<"a","b","c","d","e","f","g","h","i","j","k","l","m","n","o","p","q","r","s","t","u","v","w","x","y","z">>

Letters == {UpperCase[i] : i \in 1..26} \cup {LowerCase[i] : i \in 1..26}

Min(S) == CHOOSE x \in S : \A y \in S : x <= y

Max(S) == CHOOSE x \in S : \A y \in S : x >= y

ToLower(c) ==
    IF \E i \in 1..26 : UpperCase[i] = c
    THEN LowerCase[CHOOSE i \in 1..26 : UpperCase[i] = c]
    ELSE c

ToUpper(c) ==
    IF \E i \in 1..26 : LowerCase[i] = c
    THEN UpperCase[CHOOSE i \in 1..26 : LowerCase[i] = c]
    ELSE c

lower(s) == [i \in 1..Len(s) |-> ToLower(s[i])]

\* number of leading characters of s that lie in the set cs
LeadingIn(s, cs) ==
    LET other == {i \in 1..Len(s) : s[i] \notin cs}
    IN  IF other = {} THEN Len(s) ELSE Min(other) - 1

\* number of trailing characters of s that lie in the set cs
TrailingIn(s, cs) ==
    LET other == {i \in 1..Len(s) : s[i] \notin cs}
    IN  IF other = {} THEN Len(s) ELSE Len(s) - Max(other)

rstrip(s) == SubSeq(s, 1, Len(s) - TrailingIn(s, Whitespace))

lstrip(s, cs) == SubSeq(s, LeadingIn(s, cs) + 1, Len(s))

strip(s) == rstrip(lstrip(s, Whitespace))

startswith(s, p) == Len(s) >= Len(p) /\ SubSeq(s, 1, Len(p)) = p

endswith(s, p) == Len(s) >= Len(p) /\ SubSeq(s, Len(s) - Len(p) + 1, Len(s)) = p

(***************************************************************************)
(* Navigation tree nodes                                                   *)
(***************************************************************************)
Str(s) == [tag |-> "str", s |-> s]

Lst(xs) == [tag |-> "list", xs |-> xs]

Map(k, v) == [tag |-> "map", k |-> k, v |-> v]

(***************************************************************************)
(* _is_home_page                                                           *)
(***************************************************************************)
home_pages == {<<"i","n","t","r","o",".","m","d">>, <<"r","e","a","d","m","e",".","m","d">>, <<"i","n","t","r","o","d","u","c","t","i","o","n",".","m","d">>}

INDEX_MD == <<"i","n","d","e","x",".","m","d">>

is_home_page(path) == lower(path) \in home_pages \/ path = INDEX_MD

(***************************************************************************)
(* _normalize_section_name                                                 *)
(***************************************************************************)
mapping ==
    << <<<<"U","s","e","r"," ","G","u","i","d","e">>, <<"U","s","e","r"," ","G","u","i","d","e">>>>,
       <<<<"A","d","v","a","n","c","e","d"," ","T","o","p","i","c","s">>, <<"A","d","v","a","n","c","e","d">>>>,
       <<<<"R","e","f","e","r","e","n","c","e">>, <<"R","e","f","e","r","e","n","c","e">>>>,
       <<<<"A","P","I"," ","R","e","f","e","r","e","n","c","e">>, <<"A","P","I">>>>,
       <<<<"D","e","v","e","l","o","p","e","r"," ","G","u","i","d","e">>, <<"D","e","v","e","l","o","p","m","e","n","t">>>> >>

\* normalize_section_name that returns every section name as it is
normalize_section_name_unchanged(section) == section

normalize_section_name(section) ==
    IF \E i \in 1..Len(mapping) : mapping[i][1] = section
    THEN mapping[CHOOSE i \in 1..Len(mapping) : mapping[i][1] = section][2]
    ELSE section

(***************************************************************************)
(* The regular expressions of the parser                                   *)
(***************************************************************************)
\* re.match(r'^(\s*)(?:- )?\[(.+?)\]\((.+?)\)', line) when dash_optional,
\* re.match(r'^(\s*)- \[(.+?)\]\((.+?)\)', line) when not.  The lazy title
\* is the shortest non-empty text followed by "](" after which a non-empty
\* path and a ")" can still be found; the lazy path then ends at the first
\* ")" that leaves it non-empty.
link_match(line, dash_optional) ==
    LET w    == LeadingIn(line, Whitespace)
        rest == SubSeq(line, w + 1, Len(line))
        open == IF startswith(rest, <<"-"," ","[">>) THEN 3
                ELSE IF dash_optional /\ startswith(rest, <<"[">>) THEN 1
                ELSE 0
        body == SubSeq(rest, open + 1, Len(rest))
        ends == {i \in 1..Len(body) :
                    /\ i + 2 <= Len(body)
                    /\ body[i + 1] = "]"
                    /\ body[i + 2] = "("
                    /\ \E j \in (i + 4)..Len(body) : body[j] = ")"}
        i    == Min(ends)
        j    == Min({k \in (i + 4)..Len(body) : body[k] = ")"})
    IN  IF open = 0 \/ ends = {}
        THEN [matched |-> FALSE, indent_str |-> <<>>, title |-> <<>>, path |-> <<>>]
        ELSE [matched    |-> TRUE,
              indent_str |-> SubSeq(line, 1, w),
              title      |-> SubSeq(body, 1, i),
              path       |-> SubSeq(body, i + 3, j - 1)]

\* re.match(r'^(\s*)- \[', next_line)
next_match(next_line) ==
    LET w == LeadingIn(next_line, Whitespace)
    IN  [matched    |-> startswith(SubSeq(next_line, w + 1, Len(next_line)), <<"-"," ","[">>),
         indent_str |-> SubSeq(next_line, 1, w)]

(***************************************************************************)
(* _parse_nav_item_with_tracking                                           *)
(***************************************************************************)
\* has_children with the indent comparison off by one
has_children_off_by_one(ls, current_line, indent_level) ==
    /\ current_line + 1 < Len(ls)
    /\ LET next_match_ == next_match(ls[current_line + 2])
       IN  /\ next_match_.matched
           /\ Len(next_match_.indent_str) \div 2 > indent_level + 1

\* the look-ahead at lines[current_line + 1] (0-indexed, as in the code)
has_children(ls, current_line, indent_level) ==
    /\ current_line + 1 < Len(ls)
    /\ LET next_match_ == next_match(ls[current_line + 2])
       IN  /\ next_match_.matched
           /\ Len(next_match_.indent_str) \div 2 > indent_level

RECURSIVE collect_children(_, _, _, _, _)
\* collect_children with children.insert(0, ...) in place of children.append
collect_children_prepend(ls, i, indent_level, children, consumed_lines) ==
    IF i >= Len(ls)
    THEN [children |-> children, consumed_lines |-> consumed_lines]
    ELSE
        LET child_line   == rstrip(ls[i + 1])
            child_match  == link_match(child_line, FALSE)
            child_indent == Len(child_match.indent_str) \div 2
        IN  IF startswith(child_line, <<"#">>)
            THEN [children |-> children, consumed_lines |-> consumed_lines]
            ELSE IF child_line = <<>>
            THEN collect_children(ls, i + 1, indent_level, children, consumed_lines)
            ELSE IF child_match.matched /\ child_indent <= indent_level
            THEN [children |-> children, consumed_lines |-> consumed_lines]
            ELSE IF child_match.matched /\ child_indent = indent_level + 1
            THEN collect_children(ls, i + 1, indent_level,
                    <<Map(child_match.title, Str(child_match.path))>> \o children,
                    consumed_lines \cup {i + 1})
            ELSE collect_children(ls, i + 1, indent_level, children, consumed_lines)

\* the while loop collecting children from 0-indexed line i on
collect_children(ls, i, indent_level, children, consumed_lines) ==
    IF i >= Len(ls)
    THEN [children |-> children, consumed_lines |-> consumed_lines]
    ELSE
        LET child_line   == rstrip(ls[i + 1])
            child_match  == link_match(child_line, FALSE)
            child_indent == Len(child_match.indent_str) \div 2
        IN  IF startswith(child_line, <<"#">>)
            THEN [children |-> children, consumed_lines |-> consumed_lines]
            ELSE IF child_line = <<>>
            THEN collect_children(ls, i + 1, indent_level, children, consumed_lines)
            ELSE IF child_match.matched /\ child_indent <= indent_level
            THEN [children |-> children, consumed_lines |-> consumed_lines]
            ELSE IF child_match.matched /\ child_indent = indent_level + 1
            THEN collect_children(ls, i + 1, indent_level,
                    Append(children, Map(child_match.title, Str(child_match.path))),
                    consumed_lines \cup {i + 1})
            ELSE collect_children(ls, i + 1, indent_level, children, consumed_lines)

\* parse_nav_item_with_tracking without the test for a path "/index.md"
parse_nav_item_without_index(ls, current_line, title, path, indent_level) ==
    IF has_children(ls, current_line, indent_level)
    THEN
        LET c == collect_children(ls, current_line + 1, indent_level, <<>>, {})
        IN  IF path # <<>> /\ ~endswith(path, <<"/">>)
            THEN [nav_item       |-> Map(title, Lst(<<Str(path)>> \o c.children)),
                  consumed_lines |-> c.consumed_lines]
            ELSE [nav_item       |-> Map(title, Lst(c.children)),
                  consumed_lines |-> c.consumed_lines]
    ELSE [nav_item |-> Map(title, Str(path)), consumed_lines |-> {}]

parse_nav_item_with_tracking(ls, current_line, title, path, indent_level) ==
    IF has_children(ls, current_line, indent_level) \/ endswith(path, <<"/","i","n","d","e","x",".","m","d">>)
    THEN
        LET c == collect_children(ls, current_line + 1, indent_level, <<>>, {})
        IN  IF path # <<>> /\ ~endswith(path, <<"/">>)
            THEN [nav_item       |-> Map(title, Lst(<<Str(path)>> \o c.children)),
                  consumed_lines |-> c.consumed_lines]
            ELSE [nav_item       |-> Map(title, Lst(c.children)),
                  consumed_lines |-> c.consumed_lines]
    ELSE [nav_item |-> Map(title, Str(path)), consumed_lines |-> {}]

(***************************************************************************)
(* parse_summary: one action per way through one iteration of its loop     *)
(***************************************************************************)
Truthy(name) == name # <<>> /\ name[1] # <<>>

\* save_section that never appends the section
save_section_skip(nav_, name, items) ==
    nav_

\* "if current_section_name and section_items: nav.append({...})"
save_section(nav_, name, items) ==
    IF Truthy(name) /\ items # <<>>
    THEN Append(nav_, Map(name[1], Lst(items)))
    ELSE nav_

Scanning == pc = "parse" /\ line_num < Len(lines)

line == rstrip(lines[line_num + 1])

match == link_match(line, TRUE)

indent_level == Len(match.indent_str) \div 2

section_header == strip(lstrip(line, {"#"}))

\* is_summary comparing without lower()
is_summary_exact(header) == header = <<"s","u","m","m","a","r","y">>

\* "if section_header.lower() == 'summary'"
is_summary(header) == lower(header) = <<"s","u","m","m","a","r","y">>

\* "if not line: continue"
SkipBlank ==
    /\ Scanning
    /\ line = <<>>
    /\ line_num' = line_num + 1
    /\ UNCHANGED <<lines, nav, current_section_name, section_items,
                   home_page_found, processed_lines, changes, pc,
                   mkdocs, contents, path_arg, home_result,
                   returned, run_vars>>

\* "if line_num in processed_lines: continue"
SkipProcessed ==
    /\ Scanning
    /\ line # <<>>
    /\ (line_num + 1) \in processed_lines
    /\ line_num' = line_num + 1
    /\ UNCHANGED <<lines, nav, current_section_name, section_items,
                   home_page_found, processed_lines, changes, pc,
                   mkdocs, contents, path_arg, home_result,
                   returned, run_vars>>

\* a "# Summary" header: the open section is saved, no section is opened
SummaryHeader ==
    /\ Scanning
    /\ line # <<>>
    /\ (line_num + 1) \notin processed_lines
    /\ startswith(line, <<"#">>)
    /\ is_summary(section_header)
    /\ line_num' = line_num + 1
    /\ nav' = save_section(nav, current_section_name, section_items)
    /\ section_items' = IF Truthy(current_section_name) /\ section_items # <<>>
                        THEN <<>> ELSE section_items
    /\ UNCHANGED <<lines, current_section_name, home_page_found,
                   processed_lines, changes, pc, mkdocs, contents,
                   path_arg, home_result,
                   returned, run_vars>>

\* any other header: the open section is saved and a new one is opened
SectionHeader ==
    /\ Scanning
    /\ line # <<>>
    /\ (line_num + 1) \notin processed_lines
    /\ startswith(line, <<"#">>)
    /\ ~is_summary(section_header)
    /\ line_num' = line_num + 1
    /\ nav' = save_section(nav, current_section_name, section_items)
    /\ section_items' = IF Truthy(current_section_name) /\ section_items # <<>>
                        THEN <<>> ELSE section_items
    /\ current_section_name' = <<normalize_section_name(section_header)>>
    /\ changes' = Append(changes,
                     [note |-> "Found section", from |-> section_header,
                      to |-> normalize_section_name(section_header)])
    /\ UNCHANGED <<lines, home_page_found, processed_lines, pc, mkdocs,
                   contents, path_arg, home_result,
                   returned, run_vars>>

\* "if not match: continue"
SkipNoMatch ==
    /\ Scanning
    /\ line # <<>>
    /\ (line_num + 1) \notin processed_lines
    /\ ~startswith(line, <<"#">>)
    /\ ~match.matched
    /\ line_num' = line_num + 1
    /\ UNCHANGED <<lines, nav, current_section_name, section_items,
                   home_page_found, processed_lines, changes, pc,
                   mkdocs, contents, path_arg, home_result,
                   returned, run_vars>>

\* SkipIndented that adds the indented line as an entry of its own
SkipIndentedAdded ==
    /\ Scanning
    /\ line # <<>>
    /\ (line_num + 1) \notin processed_lines
    /\ ~startswith(line, <<"#">>)
    /\ match.matched
    /\ indent_level > 0
    /\ line_num' = line_num + 1
    /\ nav' = Append(nav, Map(match.title, Str(match.path)))
    /\ UNCHANGED <<lines, current_section_name, section_items,
                   home_page_found, processed_lines, changes, pc,
                   mkdocs, contents, path_arg, home_result,
                   returned, run_vars>>

\* "if indent_level > 0: continue"
SkipIndented ==
    /\ Scanning
    /\ line # <<>>
    /\ (line_num + 1) \notin processed_lines
    /\ ~startswith(line, <<"#">>)
    /\ match.matched
    /\ indent_level > 0
    /\ line_num' = line_num + 1
    /\ UNCHANGED <<lines, nav, current_section_name, section_items,
                   home_page_found, processed_lines, changes, pc,
                   mkdocs, contents, path_arg, home_result,
                   returned, run_vars>>

\* HomePage with nav.append in place of nav.insert(0, ...)
HomePageAppend ==
    /\ Scanning
    /\ line # <<>>
    /\ (line_num + 1) \notin processed_lines
    /\ ~startswith(line, <<"#">>)
    /\ match.matched
    /\ indent_level = 0
    /\ is_home_page(match.path)
    /\ line_num' = line_num + 1
    /\ home_page_found' = TRUE
    /\ changes' = IF match.path # INDEX_MD
                  THEN Append(changes, [note |-> "Map home page",
                                        from |-> match.path, to |-> INDEX_MD])
                  ELSE changes
    /\ nav' = Append(nav, Map(<<"H","o","m","e">>, Str(INDEX_MD)))
    /\ UNCHANGED <<lines, current_section_name, section_items,
                   processed_lines, pc, mkdocs, contents, path_arg, home_result,
                   returned, run_vars>>

\* "if self._is_home_page(path): ... nav.insert(0, {'Home': path}); continue"
HomePage ==
    /\ Scanning
    /\ line # <<>>
    /\ (line_num + 1) \notin processed_lines
    /\ ~startswith(line, <<"#">>)
    /\ match.matched
    /\ indent_level = 0
    /\ is_home_page(match.path)
    /\ line_num' = line_num + 1
    /\ home_page_found' = TRUE
    /\ changes' = IF match.path # INDEX_MD
                  THEN Append(changes, [note |-> "Map home page",
                                        from |-> match.path, to |-> INDEX_MD])
                  ELSE changes
    /\ nav' = <<Map(<<"H","o","m","e">>, Str(INDEX_MD))>> \o nav
    /\ UNCHANGED <<lines, current_section_name, section_items,
                   processed_lines, pc, mkdocs, contents, path_arg, home_result,
                   returned, run_vars>>

\* NavItem with a top-level entry wrapped in a list under its title
NavItemGrouped ==
    /\ Scanning
    /\ line # <<>>
    /\ (line_num + 1) \notin processed_lines
    /\ ~startswith(line, <<"#">>)
    /\ match.matched
    /\ indent_level = 0
    /\ ~is_home_page(match.path)
    /\ line_num' = line_num + 1
    /\ LET parsed == parse_nav_item_with_tracking(lines, line_num, match.title,
                                                  match.path, indent_level)
       IN  /\ processed_lines' = processed_lines \cup parsed.consumed_lines
           /\ IF Truthy(current_section_name)
              THEN /\ section_items' = Append(section_items, parsed.nav_item)
                   /\ nav' = nav
              ELSE /\ nav' = Append(nav, Map(match.title, Lst(<<parsed.nav_item>>)))
                   /\ section_items' = section_items
    /\ UNCHANGED <<lines, current_section_name, home_page_found, changes, pc,
                   mkdocs, contents, path_arg, home_result,
                   returned, run_vars>>

\* the entry and its children are parsed and added to the open section or to nav
NavItem ==
    /\ Scanning
    /\ line # <<>>
    /\ (line_num + 1) \notin processed_lines
    /\ ~startswith(line, <<"#">>)
    /\ match.matched
    /\ indent_level = 0
    /\ ~is_home_page(match.path)
    /\ line_num' = line_num + 1
    /\ LET parsed == parse_nav_item_with_tracking(lines, line_num, match.title,
                                                  match.path, indent_level)
       IN  /\ processed_lines' = processed_lines \cup parsed.consumed_lines
           /\ IF Truthy(current_section_name)
              THEN /\ section_items' = Append(section_items, parsed.nav_item)
                   /\ nav' = nav
              ELSE /\ nav' = Append(nav, parsed.nav_item)
                   /\ section_items' = section_items
    /\ UNCHANGED <<lines, current_section_name, home_page_found, changes, pc,
                   mkdocs, contents, path_arg, home_result,
                   returned, run_vars>>

\* ParseReturn that notes the warning whatever home_page_found is
ParseReturnAlwaysWarn ==
    /\ pc = "parse"
    /\ line_num >= Len(lines)
    /\ nav' = save_section(nav, current_section_name, section_items)
    /\ changes' = Append(changes, [note |-> "Warning: No home page found",
                                   from |-> <<>>, to |-> <<>>])
    /\ pc' = "parsed"
    /\ UNCHANGED <<lines, line_num, current_section_name, section_items,
                   home_page_found, processed_lines, mkdocs, contents,
                   path_arg, home_result,
                   returned, run_vars>>

\* after the loop: the last section is saved, the warning noted, nav returned
ParseReturn ==
    /\ pc = "parse"
    /\ line_num >= Len(lines)
    /\ nav' = save_section(nav, current_section_name, section_items)
    /\ changes' = IF ~home_page_found
                  THEN Append(changes, [note |-> "Warning: No home page found",
                                        from |-> <<>>, to |-> <<>>])
                  ELSE changes
    /\ pc' = "parsed"
    /\ UNCHANGED <<lines, line_num, current_section_name, section_items,
                   home_page_found, processed_lines, mkdocs, contents,
                   path_arg, home_result,
                   returned, run_vars>>

(***************************************************************************)
(* yaml.dump(nav, default_flow_style=False, sort_keys=False, ...): block   *)
(* style, every title and path a plain scalar                              *)
(***************************************************************************)
spaces(n) == [i \in 1..n |-> " "]

RECURSIVE concat(_)
concat(ss) == IF ss = <<>> THEN <<>> ELSE Head(ss) \o concat(Tail(ss))

\* sep.join(parts)
RECURSIVE join(_, _)
join(sep, parts) ==
    IF parts = <<>> THEN <<>>
    ELSE IF Len(parts) = 1 THEN parts[1]
    ELSE parts[1] \o sep \o join(sep, Tail(parts))

\* s.split('\n')
RECURSIVE split_lines(_)
split_lines(s) ==
    LET nl == {i \in 1..Len(s) : s[i] = "\n"}
    IN  IF nl = {} THEN <<s>>
        ELSE <<SubSeq(s, 1, Min(nl) - 1)>> \o split_lines(SubSeq(s, Min(nl) + 1, Len(s)))

\* the lines of a block sequence at the given indentation
RECURSIVE dump_seq(_, _)
dump_seq(xs, indent) ==
    IF xs = <<>> THEN <<>>
    ELSE
        LET x == Head(xs)
            first ==
                IF x.tag = "str"
                THEN <<spaces(indent) \o <<"-"," ">> \o x.s>>
                ELSE IF x.v.tag = "str"
                THEN <<spaces(indent) \o <<"-"," ">> \o x.k \o <<":"," ">> \o x.v.s>>
                ELSE IF x.v.xs = <<>>
                THEN <<spaces(indent) \o <<"-"," ">> \o x.k \o <<":"," ","[","]">>>>
                ELSE <<spaces(indent) \o <<"-"," ">> \o x.k \o <<":">>>>
                     \o dump_seq(x.v.xs, indent + 2)
        IN  first \o dump_seq(Tail(xs), indent)

yaml_dump(nav_) ==
    IF nav_ = <<>> THEN <<"[","]","\n">>
    ELSE concat([i \in 1..Len(dump_seq(nav_, 0)) |-> dump_seq(nav_, 0)[i] \o <<"\n">>])

(***************************************************************************)
(* _update_nav_in_place: the regular expression                            *)
(*   ^nav:.*?\n((?:[ \t]+.*\n|\s*\n)*?)(?=^[a-zA-Z]|\Z)                    *)
(* under re.MULTILINE | re.DOTALL, matched as a backtracking matcher       *)
(* does.  Positions are 1-indexed; Len(c) + 1 is the end of the text.      *)
(***************************************************************************)
at_line_start(c, q) == q = 1 \/ (q - 1 <= Len(c) /\ c[q - 1] = "\n")

\* (?=^[a-zA-Z]|\Z)
nav_lookahead(c, q) ==
    \/ (q <= Len(c) /\ at_line_start(c, q) /\ c[q] \in Letters)
    \/ q = Len(c) + 1

\* ((?:[ \t]+.*\n|\s*\n)*?)(?=...) from position q: the position where the
\* match ends, 0 when there is none.  The loop is lazy, so the look-ahead is
\* tried before another iteration.  One iteration of the first alternative
\* ends after a "\n" anywhere later in the text ("." matches "\n" too), the
\* greedy ".*" trying the last one first; one iteration of the second ends
\* after a "\n" of the whitespace run at q, the greedy "\s*" trying the last
\* one first.  What follows an iteration depends on the position alone, and
\* every iteration ends after a "\n", so the ends are tabulated for the
\* positions that follow a "\n", from the last one backwards: ends[p] is
\* final for every p > q.
line_starts(c) == {j + 1 : j \in {i \in 1..Len(c) : c[i] = "\n"}}

RECURSIVE nav_block_ends(_, _, _)
nav_block_ends(c, todo, ends) ==
    IF todo = {} THEN ends
    ELSE
        LET q        == Max(todo)
            first    == IF q <= Len(c) /\ c[q] \in {" ", "\t"}
                        THEN {j \in (q + 1)..Len(c) : c[j] = "\n"}
                        ELSE {}
            run      == LeadingIn(SubSeq(c, q, Len(c)), Whitespace)
            second   == {j \in q..(q + run - 1) : c[j] = "\n"}
            okFirst  == {j \in first : ends[j + 1] # 0}
            okSecond == {j \in second : ends[j + 1] # 0}
            end      == IF nav_lookahead(c, q) THEN q
                        ELSE IF okFirst # {} THEN ends[Max(okFirst) + 1]
                        ELSE IF okSecond # {} THEN ends[Max(okSecond) + 1]
                        ELSE 0
        IN  nav_block_ends(c, todo \ {q}, [ends EXCEPT ![q] = end])

nav_block_end(c) == nav_block_ends(c, line_starts(c), [p \in line_starts(c) |-> 0])

\* the whole pattern tried at start position s: where the match ends, or 0.
\* The lazy ".*?" stops at the first "\n" from which the rest matches.
nav_match_end(c, ends, s) ==
    IF ~(at_line_start(c, s) /\ startswith(SubSeq(c, s, Len(c)), <<"n","a","v",":">>))
    THEN 0
    ELSE
        LET ok == {j \in (s + 4)..Len(c) : c[j] = "\n" /\ ends[j + 1] # 0}
        IN  IF ok = {} THEN 0 ELSE ends[Min(ok) + 1]

\* nav_subn losing the text that precedes a match
RECURSIVE nav_subn_drop(_, _, _, _)
nav_subn_drop(c, ends, pos, replacement) ==
    LET starts == {s \in pos..Len(c) : nav_match_end(c, ends, s) # 0}
        s      == Min(starts)
        rest   == nav_subn_drop(c, ends, nav_match_end(c, ends, s), replacement)
    IN  IF starts = {}
        THEN [new_content |-> SubSeq(c, pos, Len(c)), count |-> 0]
        ELSE [new_content |-> replacement \o rest.new_content,
              count       |-> rest.count + 1]

\* re.subn(pattern, replace_nav, content): every match, left to right
RECURSIVE nav_subn(_, _, _, _)
nav_subn(c, ends, pos, replacement) ==
    LET starts == {s \in pos..Len(c) : nav_match_end(c, ends, s) # 0}
        s      == Min(starts)
        rest   == nav_subn(c, ends, nav_match_end(c, ends, s), replacement)
    IN  IF starts = {}
        THEN [new_content |-> SubSeq(c, pos, Len(c)), count |-> 0]
        ELSE [new_content |-> SubSeq(c, pos, s - 1) \o replacement \o rest.new_content,
              count       |-> rest.count + 1]

\* "'\n'.join('  ' + line if line else '' for line in nav_lines)"
indented_nav(nav_) ==
    LET nav_lines == split_lines(rstrip(yaml_dump(nav_)))
    IN  join(<<"\n">>, [i \in 1..Len(nav_lines) |->
                        IF nav_lines[i] # <<>> THEN <<" "," ">> \o nav_lines[i] ELSE <<>>])

\* "return f'nav:\n{indented_nav}\n\n'"
replace_nav(nav_) == <<"n","a","v",":","\n">> \o indented_nav(nav_) \o <<"\n","\n">>

\* update_nav_in_place without the "if count == 0" branch
update_nav_no_append(content, nav_) ==
    nav_subn(content, nav_block_end(content), 1, replace_nav(nav_)).new_content

\* the text _update_nav_in_place writes to mkdocs.yml
update_nav_in_place(content, nav_) ==
    LET r == nav_subn(content, nav_block_end(content), 1, replace_nav(nav_))
    IN  IF r.count = 0
        THEN rstrip(content) \o <<"\n","\n","#"," ","N","a","v","i","g","a","t","i","o","n","\n","n","a","v",":","\n">> \o indented_nav(nav_) \o <<"\n">>
        ELSE r.new_content

\* the files of a run: self.summary_path, self.mkdocs_path, and intro.md and
\* index.md in self.docs_dir
SUMMARY_MD == "SUMMARY.md"

MKDOCS_YML == "mkdocs.yml"

INTRO_FILE == "intro.md"

INDEX_FILE == "index.md"

\* update_mkdocs_nav without --dry-run: mkdocs.yml is read, the nav field
\* replaced or appended, and the file written
UpdateMkdocsNav ==
    /\ pc = "parsed"
    /\ Len(contents) <= MaxMerges
    /\ mkdocs' = update_nav_in_place(mkdocs, nav)
    /\ nav_yaml' = <<yaml_dump(nav)>>
    /\ contents' = Append(contents, mkdocs')
    /\ effects' = Append(effects, [op |-> "write", file |-> MKDOCS_YML])
    /\ UNCHANGED <<lines, line_num, nav, current_section_name, section_items,
                   home_page_found, processed_lines, changes, pc,
                   path_arg, home_result, returned, files, summary,
                   rename_files, dry_run, displayed, exit_code, runs>>

\* a call of _is_home_page
IsHomePage ==
    /\ pc = "call"
    /\ home_result' = IF is_home_page(path_arg) THEN "True" ELSE "False"
    /\ pc' = "returned"
    /\ UNCHANGED <<lines, line_num, nav, current_section_name, section_items,
                   home_page_found, processed_lines, changes, mkdocs, contents,
                   path_arg, returned, run_vars>>

(***************************************************************************)
(* parse_summary called again after lines it skips were deleted from       *)
(* SUMMARY.md                                                              *)
(***************************************************************************)
\* a line parse_summary skips: blank, or neither a header nor a match of the
\* list-item pattern
is_ignored_line(l) ==
    \/ rstrip(l) = <<>>
    \/ ~startswith(rstrip(l), <<"#">>) /\ ~link_match(rstrip(l), TRUE).matched

\* the lines of ls whose 1-indexed position is in keep, from position i on
RECURSIVE keep_lines(_, _, _)
keep_lines(ls, keep, i) ==
    IF i > Len(ls) THEN <<>>
    ELSE (IF i \in keep THEN <<ls[i]>> ELSE <<>>) \o keep_lines(ls, keep, i + 1)

\* some skipped lines are deleted from SUMMARY.md and a new MdBookMkDocsSync
\* parses the file; the tree of the first parse is remembered
ParseAgainWithout ==
    /\ pc = "parsed"
    /\ returned = <<>>
    /\ \E drop \in (SUBSET {k \in 1..Len(lines) : is_ignored_line(lines[k])}) \ {{}} :
          lines' = keep_lines(lines, (1..Len(lines)) \ drop, 1)
    /\ summary' = concat(lines')
    /\ returned' = <<nav>>
    /\ line_num' = 0
    /\ nav' = <<>>
    /\ current_section_name' = <<>>
    /\ section_items' = <<>>
    /\ home_page_found' = FALSE
    /\ processed_lines' = {}
    /\ changes' = <<>>
    /\ pc' = "parse"
    /\ UNCHANGED <<mkdocs, contents, path_arg, home_result, files,
                   rename_files, dry_run, effects, displayed, exit_code,
                   nav_yaml, runs>>


\* ParseAgain that goes on with the tree of the first call
ParseAgainOntoTree ==
    /\ pc = "parsed"
    /\ returned = <<>>
    /\ returned' = <<nav>>
    /\ line_num' = 0
    /\ current_section_name' = <<>>
    /\ section_items' = <<>>
    /\ home_page_found' = FALSE
    /\ processed_lines' = {}
    /\ pc' = "parse"
    /\ UNCHANGED <<lines, nav, changes, mkdocs, contents, path_arg,
                   home_result, run_vars>>

\* parse_summary is called a second time on the same MdBookMkDocsSync: its
\* locals start afresh, self.changes keeps the notes of the first call, and
\* the tree the first call returned is remembered
ParseAgain ==
    /\ pc = "parsed"
    /\ returned = <<>>
    /\ returned' = <<nav>>
    /\ line_num' = 0
    /\ nav' = <<>>
    /\ current_section_name' = <<>>
    /\ section_items' = <<>>
    /\ home_page_found' = FALSE
    /\ processed_lines' = {}
    /\ pc' = "parse"
    /\ UNCHANGED <<lines, changes, mkdocs, contents, path_arg, home_result,
                   run_vars>>
(***************************************************************************)
(* run: the files are verified, SUMMARY.md is parsed, the notes are shown, *)
(* the home page is renamed when asked for, and mkdocs.yml is updated      *)
(***************************************************************************)
\* re.sub of the literal old by new: every occurrence, left to right
RECURSIVE replace_all(_, _, _)
replace_all(s, old, new) ==
    IF Len(s) < Len(old) THEN s
    ELSE IF SubSeq(s, 1, Len(old)) = old
    THEN new \o replace_all(SubSeq(s, Len(old) + 1, Len(s)), old, new)
    ELSE <<s[1]>> \o replace_all(Tail(s), old, new)

\* _update_summary_references('intro.md', 'index.md'): the text written
update_summary_references(content) ==
    replace_all(content, <<"(","i","n","t","r","o",".","m","d",")">>, <<"(","i","n","d","e","x",".","m","d",")">>)

\* "if not self.summary_path.exists(): return 1"
RunSummaryNotFound ==
    /\ pc = "run"
    /\ SUMMARY_MD \notin files
    /\ exit_code' = 1
    /\ pc' = "exited"
    /\ UNCHANGED <<lines, line_num, nav, current_section_name, section_items,
                   home_page_found, processed_lines, changes, mkdocs, contents,
                   path_arg, home_result, returned, files, summary,
                   rename_files, dry_run, effects, displayed,
                   nav_yaml, runs>>

\* RunMkdocsNotFound that goes on to report success
RunMkdocsNotFoundIgnored ==
    /\ pc = "run"
    /\ SUMMARY_MD \in files
    /\ MKDOCS_YML \notin files
    /\ exit_code' = 0
    /\ pc' = "exited"
    /\ UNCHANGED <<lines, line_num, nav, current_section_name, section_items,
                   home_page_found, processed_lines, changes, mkdocs, contents,
                   path_arg, home_result, returned, files, summary,
                   rename_files, dry_run, effects, displayed,
                   nav_yaml, runs>>

\* "if not self.mkdocs_path.exists(): return 1"
RunMkdocsNotFound ==
    /\ pc = "run"
    /\ SUMMARY_MD \in files
    /\ MKDOCS_YML \notin files
    /\ exit_code' = 1
    /\ pc' = "exited"
    /\ UNCHANGED <<lines, line_num, nav, current_section_name, section_items,
                   home_page_found, processed_lines, changes, mkdocs, contents,
                   path_arg, home_result, returned, files, summary,
                   rename_files, dry_run, effects, displayed,
                   nav_yaml, runs>>

\* "nav = self.parse_summary()": the loop of parse_summary starts
RunParseSummary ==
    /\ pc = "run"
    /\ SUMMARY_MD \in files
    /\ MKDOCS_YML \in files
    /\ pc' = "parse"
    /\ UNCHANGED <<lines, line_num, nav, current_section_name, section_items,
                   home_page_found, processed_lines, changes, mkdocs, contents,
                   path_arg, home_result, returned, run_vars>>

\* "if self.changes: ... print(change)"
RunShowChanges ==
    /\ pc = "parsed"
    /\ displayed' = changes
    /\ pc' = "rename"
    /\ UNCHANGED <<lines, line_num, nav, current_section_name, section_items,
                   home_page_found, processed_lines, changes, mkdocs, contents,
                   path_arg, home_result, returned, files, summary,
                   rename_files, dry_run, effects, exit_code,
                   nav_yaml, runs>>

\* "if self.rename_files:" is false
RunWithoutRename ==
    /\ pc = "rename"
    /\ ~rename_files
    /\ pc' = "update"
    /\ UNCHANGED <<lines, line_num, nav, current_section_name, section_items,
                   home_page_found, processed_lines, changes, mkdocs, contents,
                   path_arg, home_result, returned, run_vars>>

\* rename_home_page: "if not intro_path.exists(): return"
RenameNothing ==
    /\ pc = "rename"
    /\ rename_files
    /\ INTRO_FILE \notin files
    /\ pc' = "update"
    /\ UNCHANGED <<lines, line_num, nav, current_section_name, section_items,
                   home_page_found, processed_lines, changes, mkdocs, contents,
                   path_arg, home_result, returned, run_vars>>

\* RenameSkipExisting that renames over the index.md that exists
RenameSkipExistingOverwrites ==
    /\ pc = "rename"
    /\ rename_files
    /\ INTRO_FILE \in files
    /\ INDEX_FILE \in files
    /\ files' = files \ {INTRO_FILE}
    /\ summary' = update_summary_references(summary)
    /\ effects' = Append(effects, [op |-> "rename", file |-> INTRO_FILE])
    /\ pc' = "update"
    /\ UNCHANGED <<lines, line_num, nav, current_section_name, section_items,
                   home_page_found, processed_lines, changes, mkdocs, contents,
                   path_arg, home_result, returned, rename_files, dry_run,
                   displayed, exit_code, nav_yaml, runs>>

\* rename_home_page: "if index_path.exists(): ... return"
RenameSkipExisting ==
    /\ pc = "rename"
    /\ rename_files
    /\ INTRO_FILE \in files
    /\ INDEX_FILE \in files
    /\ pc' = "update"
    /\ UNCHANGED <<lines, line_num, nav, current_section_name, section_items,
                   home_page_found, processed_lines, changes, mkdocs, contents,
                   path_arg, home_result, returned, run_vars>>

\* rename_home_page: "if self.dry_run: ... return"; _show_summary_updates
\* only reads SUMMARY.md
RenameDryRun ==
    /\ pc = "rename"
    /\ rename_files
    /\ INTRO_FILE \in files
    /\ INDEX_FILE \notin files
    /\ dry_run
    /\ pc' = "update"
    /\ UNCHANGED <<lines, line_num, nav, current_section_name, section_items,
                   home_page_found, processed_lines, changes, mkdocs, contents,
                   path_arg, home_result, returned, run_vars>>

\* rename_home_page: intro.md is renamed, the note is added, and
\* _update_summary_references writes SUMMARY.md when its text changes
RenameHomePage ==
    /\ pc = "rename"
    /\ rename_files
    /\ INTRO_FILE \in files
    /\ INDEX_FILE \notin files
    /\ ~dry_run
    /\ files' = (files \ {INTRO_FILE}) \cup {INDEX_FILE}
    /\ changes' = Append(changes, [note |-> "Renamed", from |-> <<"i","n","t","r","o",".","m","d">>,
                                   to |-> <<"i","n","d","e","x",".","m","d">>])
    /\ summary' = update_summary_references(summary)
    /\ effects' = effects
                    \o <<[op |-> "rename", file |-> INTRO_FILE]>>
                    \o (IF summary' # summary
                        THEN <<[op |-> "write", file |-> SUMMARY_MD]>> ELSE <<>>)
    /\ pc' = "update"
    /\ UNCHANGED <<lines, line_num, nav, current_section_name, section_items,
                   home_page_found, processed_lines, mkdocs, contents,
                   path_arg, home_result, returned, rename_files, dry_run,
                   displayed, exit_code,
                   nav_yaml, runs>>

\* UpdateDryRun that writes mkdocs.yml all the same
UpdateDryRunWrites ==
    /\ pc = "update"
    /\ MKDOCS_YML \in files
    /\ dry_run
    /\ mkdocs' = update_nav_in_place(mkdocs, nav)
    /\ nav_yaml' = <<yaml_dump(nav)>>
    /\ contents' = Append(contents, mkdocs')
    /\ effects' = Append(effects, [op |-> "write", file |-> MKDOCS_YML])
    /\ exit_code' = 0
    /\ pc' = "exited"
    /\ UNCHANGED <<lines, line_num, nav, current_section_name, section_items,
                   home_page_found, processed_lines, changes, path_arg,
                   home_result, returned, files, summary, rename_files,
                   dry_run, displayed, runs>>

\* update_mkdocs_nav: "if self.dry_run: ... return True", then run returns 0
UpdateDryRun ==
    /\ pc = "update"
    /\ MKDOCS_YML \in files
    /\ dry_run
    /\ exit_code' = 0
    /\ pc' = "exited"
    /\ UNCHANGED <<lines, line_num, nav, current_section_name, section_items,
                   home_page_found, processed_lines, changes, mkdocs, contents,
                   path_arg, home_result, returned, files, summary,
                   rename_files, dry_run, effects, displayed,
                   nav_yaml, runs>>

\* update_mkdocs_nav: _update_nav_in_place writes mkdocs.yml and returns
\* True, then run returns 0
UpdateInPlace ==
    /\ pc = "update"
    /\ MKDOCS_YML \in files
    /\ ~dry_run
    /\ mkdocs' = update_nav_in_place(mkdocs, nav)
    /\ nav_yaml' = <<yaml_dump(nav)>>
    /\ contents' = Append(contents, mkdocs')
    /\ effects' = Append(effects, [op |-> "write", file |-> MKDOCS_YML])
    /\ exit_code' = 0
    /\ pc' = "exited"
    /\ UNCHANGED <<lines, line_num, nav, current_section_name, section_items,
                   home_page_found, processed_lines, changes, path_arg,
                   home_result, returned, files, summary, rename_files,
                   dry_run, displayed, runs>>


(***************************************************************************)
(* update_mkdocs_nav in runs that work on one mkdocs.yml at the same time: *)
(* each run reads the file, computes the new text, opens the file for      *)
(* writing, which empties it, and writes the text when the file is closed  *)
(***************************************************************************)
\* a write of new at offset 0 of a file that holds old
overlay(new, old) == new \o SubSeq(old, Len(new) + 1, Len(old))

\* "with open(self.mkdocs_path, 'r') as f: content = f.read()"
ConcRead(i) ==
    /\ pc = "concurrent"
    /\ runs[i].pc = "read"
    /\ runs' = [runs EXCEPT ![i].content = mkdocs, ![i].pc = "open"]
    /\ UNCHANGED <<lines, line_num, nav, current_section_name, section_items,
                   home_page_found, processed_lines, changes, pc, mkdocs,
                   contents, path_arg, home_result, returned, files, summary,
                   rename_files, dry_run, effects, displayed, nav_yaml,
                   exit_code>>

\* "with open(self.mkdocs_path, 'w') as f": the file is emptied
ConcOpen(i) ==
    /\ pc = "concurrent"
    /\ runs[i].pc = "open"
    /\ mkdocs' = <<>>
    /\ contents' = Append(contents, mkdocs')
    /\ runs' = [runs EXCEPT ![i].pc = "write"]
    /\ UNCHANGED <<lines, line_num, nav, current_section_name, section_items,
                   home_page_found, processed_lines, changes, pc, path_arg,
                   home_result, returned, files, summary, rename_files,
                   dry_run, effects, displayed, nav_yaml, exit_code>>

\* ConcWrite that merges the tree into what the file holds when it writes
ConcWriteMerged(i) ==
    /\ pc = "concurrent"
    /\ runs[i].pc = "write"
    /\ mkdocs' = overlay(update_nav_in_place(mkdocs, runs[i].nav), mkdocs)
    /\ contents' = Append(contents, mkdocs')
    /\ effects' = Append(effects, [op |-> "write", file |-> MKDOCS_YML])
    /\ runs' = [runs EXCEPT ![i].pc = "done"]
    /\ UNCHANGED <<lines, line_num, nav, current_section_name, section_items,
                   home_page_found, processed_lines, changes, pc, path_arg,
                   home_result, returned, files, summary, rename_files,
                   dry_run, displayed, nav_yaml, exit_code>>

\* "f.write(new_content)" and the end of the with block: the text computed
\* from the content that was read goes to the start of the file
ConcWrite(i) ==
    /\ pc = "concurrent"
    /\ runs[i].pc = "write"
    /\ mkdocs' = overlay(update_nav_in_place(runs[i].content, runs[i].nav), mkdocs)
    /\ contents' = Append(contents, mkdocs')
    /\ effects' = Append(effects, [op |-> "write", file |-> MKDOCS_YML])
    /\ runs' = [runs EXCEPT ![i].pc = "done"]
    /\ UNCHANGED <<lines, line_num, nav, current_section_name, section_items,
                   home_page_found, processed_lines, changes, pc, path_arg,
                   home_result, returned, files, summary, rename_files,
                   dry_run, displayed, nav_yaml, exit_code>>
(***************************************************************************)
(* Inputs                                                                  *)
(***************************************************************************)
\* lines an outline document is made of, as f.readlines() returns them
OutlineLines ==
    { <<"[","I","]","(","i","n","t","r","o",".","m","d",")","\n">>,
      <<"-"," ","[","R","]","(","R","E","A","D","M","E",".","m","d",")","\n">>,
      <<"-"," ","[","A","]","(","a",".","m","d",")","\n">>,
      <<" "," ","-"," ","[","B","]","(","b",".","m","d",")","\n">>,
      <<" "," ","-"," ","[","J","]","(","i","n","t","r","o",".","m","d",")","\n">>,
      <<" "," "," "," ","-"," ","[","C","]","(","c",".","m","d",")","\n">>,
      <<"-"," ","[","D","]","(","d","/","i","n","d","e","x",".","m","d",")","\n">>,
      <<"[","E","]","(","e",".","m","d",")","\n">>,
      <<"#"," ","A","d","v","a","n","c","e","d"," ","T","o","p","i","c","s","\n">>,
      <<"#"," ","R","e","f","e","r","e","n","c","e","\n">>,
      <<"#"," ","S","U","M","M","A","R","Y","\n">>,
      <<"t","e","x","t","\n">>,
      <<"\n">> }

\* the lines of the longer outlines: entries, a child and section headings
SectionLines ==
    { <<"-"," ","[","A","]","(","a",".","m","d",")","\n">>,
      <<" "," ","-"," ","[","B","]","(","b",".","m","d",")","\n">>,
      <<"[","E","]","(","e",".","m","d",")","\n">>,
      <<"#"," ","A","d","v","a","n","c","e","d"," ","T","o","p","i","c","s","\n">>,
      <<"#"," ","R","e","f","e","r","e","n","c","e","\n">>,
      <<"#"," ","S","u","m","m","a","r","y","\n">> }

\* the lines of the outlines about groups and section names: a directory
\* path, an index path, an entry and a child, and headings in and out of the
\* table of _normalize_section_name
DetailLines ==
    { <<"-"," ","[","F","]","(","f","/",")","\n">>,
      <<"-"," ","[","D","]","(","d","/","i","n","d","e","x",".","m","d",")","\n">>,
      <<"-"," ","[","A","]","(","a",".","m","d",")","\n">>,
      <<" "," ","-"," ","[","B","]","(","b",".","m","d",")","\n">>,
      <<"#"," ","A","P","I"," ","R","e","f","e","r","e","n","c","e","\n">>,
      <<"#"," ","D","e","v","e","l","o","p","e","r"," ","G","u","i","d","e","\n">>,
      <<"#"," ","N","o","t","e","s","\n">> }

Outlines ==
    UNION {[1..n -> OutlineLines] : n \in 0..MaxLines}
        \cup [1..(MaxLines + 1) -> SectionLines]
        \cup UNION {[1..n -> DetailLines] : n \in 1..MaxLines}

\* lines a target document is made of
TargetLines == { <<"n","a","v",":">>, <<"n","a","v",":"," ","x">>, <<" "," ","-"," ","a">>, <<>>, <<"t",":"," ","x">>, <<"#","c">> }

TargetDocs ==
    UNION {{join(<<"\n">>, ls) \o end : ls \in [1..n -> TargetLines], end \in {<<>>, <<"\n">>}}
           : n \in 0..MaxDocLines}

HomeEntry == Map(<<"H","o","m","e">>, Str(INDEX_MD))

\* trees parse_summary returns: of an empty outline, of "[I](intro.md)", and of
\* "[I](intro.md)", "# Advanced Topics", "- [A](a.md)", "  - [B](b.md)"
NavTrees ==
    { <<>>,
      <<HomeEntry>>,
      <<HomeEntry,
        Map(<<"A","d","v","a","n","c","e","d">>,
            Lst(<<Map(<<"A">>, Lst(<<Str(<<"a",".","m","d">>), Map(<<"B">>, Str(<<"b",".","m","d">>))>>))>>))>> }

\* every way of writing s in upper and lower case
CaseVariants(s) ==
    {[i \in 1..Len(s) |-> IF i \in up THEN ToUpper(s[i]) ELSE ToLower(s[i])]
        : up \in SUBSET (1..Len(s))}

HomePathArgs ==
    CaseVariants(INDEX_MD) \cup CaseVariants(<<"i","n","t","r","o",".","m","d">>)
        \cup CaseVariants(<<"r","e","a","d","m","e",".","m","d">>) \cup CaseVariants(<<"a",".","m","d">>)

(***************************************************************************)
(* Specifications                                                          *)
(***************************************************************************)
\* parse_summary on an outline document
InitParse ==
    /\ lines \in Outlines
    /\ line_num = 0
    /\ nav = <<>>
    /\ current_section_name = <<>>
    /\ section_items = <<>>
    /\ home_page_found = FALSE
    /\ processed_lines = {}
    /\ changes = <<>>
    /\ pc = "parse"
    /\ mkdocs = <<>>
    /\ contents = <<mkdocs>>
    /\ path_arg = <<>>
    /\ home_result = "none"
    /\ returned = <<>>
    /\ files = {SUMMARY_MD, MKDOCS_YML}
    /\ summary = concat(lines)
    /\ rename_files = FALSE
    /\ dry_run = FALSE
    /\ effects = <<>>
    /\ displayed = <<>>
    /\ nav_yaml = <<>>
    /\ runs = <<>>
    /\ exit_code = "none"

NextParse ==
    \/ SkipBlank
    \/ SkipProcessed
    \/ SummaryHeader
    \/ SectionHeader
    \/ SkipNoMatch
    \/ SkipIndented
    \/ HomePage
    \/ NavItem
    \/ ParseReturn

SpecParse == InitParse /\ [][NextParse]_vars

\* the outlines parsed twice
RepeatOutlines ==
    UNION {[1..n -> OutlineLines] : n \in 0..(MaxLines - 1)}
        \cup UNION {[1..n -> DetailLines] : n \in 1..MaxLines}

\* two calls of parse_summary on one instance and one outline document
InitRepeat ==
    /\ lines \in RepeatOutlines
    /\ line_num = 0
    /\ nav = <<>>
    /\ current_section_name = <<>>
    /\ section_items = <<>>
    /\ home_page_found = FALSE
    /\ processed_lines = {}
    /\ changes = <<>>
    /\ pc = "parse"
    /\ mkdocs = <<>>
    /\ contents = <<mkdocs>>
    /\ path_arg = <<>>
    /\ home_result = "none"
    /\ returned = <<>>
    /\ files = {SUMMARY_MD, MKDOCS_YML}
    /\ summary = concat(lines)
    /\ rename_files = FALSE
    /\ dry_run = FALSE
    /\ effects = <<>>
    /\ displayed = <<>>
    /\ nav_yaml = <<>>
    /\ runs = <<>>
    /\ exit_code = "none"

NextRepeat == NextParse \/ ParseAgain

SpecRepeat == InitRepeat /\ [][NextRepeat]_vars

\* parse_summary on an outline document, and again on the document without
\* some of the lines it skips
NextReparse == NextParse \/ ParseAgainWithout

SpecReparse == InitParse /\ [][NextReparse]_vars

\* the same tree merged into a target document, MaxMerges times over
InitMerge ==
    /\ lines = <<>>
    /\ line_num = 0
    /\ nav \in NavTrees
    /\ current_section_name = <<>>
    /\ section_items = <<>>
    /\ home_page_found = FALSE
    /\ processed_lines = {}
    /\ changes = <<>>
    /\ pc = "parsed"
    /\ mkdocs \in TargetDocs
    /\ contents = <<mkdocs>>
    /\ path_arg = <<>>
    /\ home_result = "none"
    /\ returned = <<>>
    /\ files = {SUMMARY_MD, MKDOCS_YML}
    /\ summary = concat(lines)
    /\ rename_files = FALSE
    /\ dry_run = FALSE
    /\ effects = <<>>
    /\ displayed = <<>>
    /\ nav_yaml = <<>>
    /\ runs = <<>>
    /\ exit_code = "none"

NextMerge == UpdateMkdocsNav

SpecMerge == InitMerge /\ [][NextMerge]_vars

\* the outlines of a run: an empty one, one with every kind of line, one
\* whose links name intro.md, and one that names intro.md in plain text
RunOutlines ==
    { <<>>,
      << <<"[","I","]","(","i","n","t","r","o",".","m","d",")","\n">>, <<"#"," ","S","u","m","m","a","r","y","\n">>, <<"#"," ","A","d","v","a","n","c","e","d"," ","T","o","p","i","c","s","\n">>,
         <<"-"," ","[","A","]","(","a",".","m","d",")","\n">>, <<" "," ","-"," ","[","B","]","(","b",".","m","d",")","\n">>, <<"\n">>, <<"t","e","x","t","\n">>,
         <<" "," "," "," ","-"," ","[","C","]","(","c",".","m","d",")","\n">> >>,
      << <<"-"," ","[","A","]","(","a",".","m","d",")","\n">>, <<" "," ","-"," ","[","J","]","(","i","n","t","r","o",".","m","d",")","\n">> >>,
      << <<"[","I","]","(","i","n","t","r","o",".","m","d",")","\n">>, <<"s","e","e"," ","(","i","n","t","r","o",".","m","d",")","\n">> >> }

\* the texts of mkdocs.yml of a run
RunTargets == { <<"n","a","v",":","\n"," "," ","-"," ","a","\n">>, <<"t",":"," ","x","\n">> }

AllFiles == {SUMMARY_MD, MKDOCS_YML, INTRO_FILE, INDEX_FILE}

\* one run of the script
InitRun ==
    /\ lines \in RunOutlines
    /\ line_num = 0
    /\ nav = <<>>
    /\ current_section_name = <<>>
    /\ section_items = <<>>
    /\ home_page_found = FALSE
    /\ processed_lines = {}
    /\ changes = <<>>
    /\ pc = "run"
    /\ mkdocs \in RunTargets
    /\ contents = <<mkdocs>>
    /\ path_arg = <<>>
    /\ home_result = "none"
    /\ returned = <<>>
    /\ files \in SUBSET AllFiles
    /\ summary = concat(lines)
    /\ rename_files \in BOOLEAN
    /\ dry_run \in BOOLEAN
    /\ effects = <<>>
    /\ displayed = <<>>
    /\ nav_yaml = <<>>
    /\ runs = <<>>
    /\ exit_code = "none"

NextRun ==
    \/ RunSummaryNotFound
    \/ RunMkdocsNotFound
    \/ RunParseSummary
    \/ NextParse
    \/ RunShowChanges
    \/ RunWithoutRename
    \/ RenameNothing
    \/ RenameSkipExisting
    \/ RenameDryRun
    \/ RenameHomePage
    \/ UpdateDryRun
    \/ UpdateInPlace

SpecRun == InitRun /\ [][NextRun]_vars

\* two runs that update one mkdocs.yml, each with the tree it has parsed
InitConcurrent ==
    /\ lines = <<>>
    /\ line_num = 0
    /\ nav = <<>>
    /\ current_section_name = <<>>
    /\ section_items = <<>>
    /\ home_page_found = FALSE
    /\ processed_lines = {}
    /\ changes = <<>>
    /\ pc = "concurrent"
    /\ mkdocs \in RunTargets
    /\ contents = <<mkdocs>>
    /\ path_arg = <<>>
    /\ home_result = "none"
    /\ returned = <<>>
    /\ files = {SUMMARY_MD, MKDOCS_YML}
    /\ summary = concat(lines)
    /\ rename_files = FALSE
    /\ dry_run = FALSE
    /\ effects = <<>>
    /\ displayed = <<>>
    /\ nav_yaml = <<>>
    /\ runs \in [1..2 -> {[pc |-> "read", nav |-> t, content |-> <<>>] : t \in NavTrees}]
    /\ exit_code = "none"

NextConcurrent ==
    \E i \in 1..2 :
        \/ ConcRead(i)
        \/ ConcOpen(i)
        \/ ConcWrite(i)

SpecConcurrent == InitConcurrent /\ [][NextConcurrent]_vars

\* one call of _is_home_page
InitHome ==
    /\ lines = <<>>
    /\ line_num = 0
    /\ nav = <<>>
    /\ current_section_name = <<>>
    /\ section_items = <<>>
    /\ home_page_found = FALSE
    /\ processed_lines = {}
    /\ changes = <<>>
    /\ pc = "call"
    /\ mkdocs = <<>>
    /\ contents = <<mkdocs>>
    /\ path_arg \in HomePathArgs
    /\ home_result = "none"
    /\ returned = <<>>
    /\ files = {SUMMARY_MD, MKDOCS_YML}
    /\ summary = concat(lines)
    /\ rename_files = FALSE
    /\ dry_run = FALSE
    /\ effects = <<>>
    /\ displayed = <<>>
    /\ nav_yaml = <<>>
    /\ runs = <<>>
    /\ exit_code = "none"

NextHome == IsHomePage

SpecHome == InitHome /\ [][NextHome]_vars

Init == InitParse

Next == NextParse

Spec == SpecParse

(***************************************************************************)
(* Properties of the merger, checked under SpecMerge                       *)
(***************************************************************************)
\* the positions where a line starting with "nav:" begins
nav_line_starts(c) ==
    {s \in 1..Len(c) : at_line_start(c, s) /\ startswith(SubSeq(c, s, Len(c)), <<"n","a","v",":">>)}

has_nav_line(c) == nav_line_starts(c) # {}

\* the positions t of c where, after the nav: line at s and one or more
\* indented or blank lines, a line of another top-level field begins
later_fields(c, s) ==
    {t \in (s + 1)..Len(c) :
        /\ at_line_start(c, t)
        /\ c[t] \in Letters
        /\ \E p \in (s + 1)..(t - 1) : at_line_start(c, p)
        /\ \A p \in (s + 1)..(t - 1) : at_line_start(c, p) => c[p] \in {" ", "\t", "\n"}}

\* C1: when the target document has one nav: line, followed by indented or
\* blank lines and then by another top-level field, the document written by
\* the merge ends with that field and everything after it, unchanged.
C1_LaterFieldUnchanged ==
    Len(contents) >= 2 =>
        \A s \in nav_line_starts(contents[1]) :
            \A t \in later_fields(contents[1], s) :
                Cardinality(nav_line_starts(contents[1])) = 1 =>
                    endswith(contents[2], SubSeq(contents[1], t, Len(contents[1])))

\* C2: when the document holds a line starting with nav:, each merge writes
\* a document that begins with the text preceding the first such line.
C2_PrefixPreserved ==
    \A i \in 1..(Len(contents) - 1) :
        has_nav_line(contents[i]) =>
            startswith(contents[i + 1],
                       SubSeq(contents[i], 1, Min(nav_line_starts(contents[i])) - 1))

C2_Witness ==
    /\ Len(contents) >= 2
    /\ has_nav_line(contents[1])
    /\ Min(nav_line_starts(contents[1])) > 1
    /\ contents[2] # contents[1]

\* C3: on a document that has a nav: line, merging the same tree a second
\* time writes what the first merge wrote.
C3_SecondMergeNoOp ==
    (Len(contents) >= 3 /\ has_nav_line(contents[1])) => contents[3] = contents[2]

\* C4: on a document without a nav: line, merging the same tree a second
\* time writes what the first merge (which appended the field) wrote.
C4_SecondMergeAfterAppendNoOp ==
    (Len(contents) >= 3 /\ ~has_nav_line(contents[1])) => contents[3] = contents[2]

\* C5: on a document without a nav: line the merge writes the document with
\* its trailing whitespace stripped, followed by a new nav: field that holds
\* the serialized tree.
C5_AppendWhenNoNavField ==
    (Len(contents) >= 2 /\ ~has_nav_line(contents[1])) =>
        contents[2] = rstrip(contents[1]) \o <<"\n","\n","#"," ","N","a","v","i","g","a","t","i","o","n","\n","n","a","v",":","\n">>
                        \o indented_nav(nav) \o <<"\n">>

C5_Witness ==
    /\ Len(contents) >= 2
    /\ ~has_nav_line(contents[1])
    /\ rstrip(contents[1]) # <<>>
    /\ rstrip(contents[1]) # contents[1]
    /\ nav # <<>>

(***************************************************************************)
(* Properties of the parser, checked under SpecParse                       *)
(***************************************************************************)
\* line k read as an entry line "- [Title](path)"; on the first line of the
\* outline the "- " may be missing
entry_of(k) == link_match(rstrip(lines[k]), k = 1)

\* line k is an entry line at indent level 0
is_level0_entry(k) ==
    entry_of(k).matched /\ Len(entry_of(k).indent_str) \div 2 = 0

child_of(k) == link_match(rstrip(lines[k]), FALSE)

\* line k is a "- [Title](path)" line at indent level 1
is_level1_entry(k) ==
    child_of(k).matched /\ Len(child_of(k).indent_str) \div 2 = 1

\* the level-1 entry lines that immediately follow line k
child_run(k) ==
    {c \in (k + 1)..Len(lines) : \A i \in (k + 1)..c : is_level1_entry(i)}

distinct_lines ==
    \A i, j \in 1..Len(lines) : i # j => lines[i] # lines[j]

\* the text of the heading on line j
header_of(j) == strip(lstrip(rstrip(lines[j]), {"#"}))

\* the heading lines that give a section the name name
lines_of_heading(name) ==
    {j \in 1..Len(lines) :
        /\ startswith(rstrip(lines[j]), <<"#">>)
        /\ normalize_section_name(header_of(j)) = name}

\* a top-level element that is a section group: a list of entries under the
\* name a heading of the outline gives (an entry with a path that ends in
\* "/" has a list of the same shape, under its title)
is_section_group(x) ==
    /\ x.v.tag = "list"
    /\ x.v.xs # <<>>
    /\ x.v.xs[1].tag = "map"
    /\ lines_of_heading(x.k) # {}

RECURSIVE node_paths(_)
\* every path string in a node
node_paths(x) ==
    IF x.tag = "str" THEN {x.s}
    ELSE IF x.tag = "map" THEN node_paths(x.v)
    ELSE UNION {node_paths(x.xs[i]) : i \in 1..Len(x.xs)}

RECURSIVE map_nodes(_)
\* every single-key mapping in a node
map_nodes(x) ==
    IF x.tag = "str" THEN {}
    ELSE IF x.tag = "map" THEN {x} \cup map_nodes(x.v)
    ELSE UNION {map_nodes(x.xs[i]) : i \in 1..Len(x.xs)}

RECURSIVE occurrences(_, _)
\* how many times the mapping m occurs in a node
occurrences(x, m) ==
    IF x.tag = "str" THEN 0
    ELSE IF x.tag = "map" THEN (IF x = m THEN 1 ELSE 0) + occurrences(x.v, m)
    ELSE IF x.xs = <<>> THEN 0
    ELSE occurrences(Head(x.xs), m) + occurrences(Lst(Tail(x.xs)), m)

\* the level-1 entries that immediately follow line k are children of the
\* entry of line k and occur nowhere else in the tree
children_attached(k) ==
    \A c \in child_run(k) :
        LET child == Map(child_of(c).title, Str(child_of(c).path))
        IN  /\ \E e \in map_nodes(Lst(nav)) :
                /\ e.k = entry_of(k).title
                /\ e.v.tag = "list"
                /\ \E j \in 1..Len(e.v.xs) : e.v.xs[j] = child
            /\ occurrences(Lst(nav), child) = 1

\* the lines the parser reads as level-0 entries with a home-page path
home_lines ==
    {k \in 1..Len(lines) :
        LET m == link_match(rstrip(lines[k]), TRUE)
        IN  m.matched /\ Len(m.indent_str) \div 2 = 0 /\ is_home_page(m.path)}

\* C6: when the outline has a level-0 entry with a home-page path, the tree
\* returned begins with the home entry {Home: index.md}, and no section
\* group has the home entry as a member.
C6_HomeEntryFirst ==
    (pc = "parsed" /\ home_lines # {}) =>
        /\ nav # <<>>
        /\ nav[1] = HomeEntry
        /\ \A i \in 1..Len(nav) :
              is_section_group(nav[i]) =>
                  \A j \in 1..Len(nav[i].v.xs) : nav[i].v.xs[j] # HomeEntry

C6_Witness ==
    /\ pc = "parsed"
    /\ home_lines # {}
    /\ 1 \notin home_lines
    /\ \E i \in 1..Len(nav) : is_section_group(nav[i])

\* C7: the tree returned holds at most one home entry.
C7_AtMostOneHomeEntry ==
    pc = "parsed" => Cardinality({i \in 1..Len(nav) : nav[i] = HomeEntry}) <= 1

\* C8: no path in the tree returned is intro.md, readme.md or introduction.md
\* in any letter case (the home entry's path is index.md).
C8_NoHomePageNameLeft ==
    pc = "parsed" => \A p \in node_paths(Lst(nav)) : lower(p) \notin home_pages

C9_CaseInsensitive ==
    pc = "returned" =>
        \A q \in CaseVariants(path_arg) : is_home_page(q) = (home_result = "True")

(***************************************************************************)
(* Further properties of the parser, checked under SpecParse               *)
(***************************************************************************)
\* line k is a "- [Title](path)" line at indent level 2 or deeper
is_deep_entry(k) ==
    child_of(k).matched /\ Len(child_of(k).indent_str) \div 2 >= 2

\* the level-0 entry lines before line k
level0_before(k) == {j \in 1..(k - 1) : is_level0_entry(j)}

\* the mapping of line k is an element of the list of the entry of line k0
is_child_in_tree(k, k0) ==
    \E e \in map_nodes(Lst(nav)) :
        /\ e.k = entry_of(k0).title
        /\ e.v.tag = "list"
        /\ \E j \in 1..Len(e.v.xs) :
              e.v.xs[j] = Map(child_of(k).title, Str(child_of(k).path))

\* C11: an entry line at indent level 2 or deeper, reached from the nearest
\* preceding level-0 entry (not a home page) through indented entry lines
\* only, is in the tree as a child of that level-0 entry.
C11_DeepEntryCaptured ==
    (pc = "parsed" /\ distinct_lines) =>
        \A k \in 1..Len(lines) :
            (is_deep_entry(k) /\ level0_before(k) # {}) =>
                LET k0 == Max(level0_before(k))
                IN  (/\ ~is_home_page(entry_of(k0).path)
                     /\ \A i \in (k0 + 1)..(k - 1) :
                           is_level1_entry(i) \/ is_deep_entry(i))
                        => is_child_in_tree(k, k0)

no_heading_lines ==
    \A k \in 1..Len(lines) : ~startswith(rstrip(lines[k]), <<"#">>)

\* x is the tree element parse_summary makes of the level-0 entry line k:
\* the home entry, or the line's title with its path or with a list of leaf
\* children that starts with its path unless the path ends in "/"
is_entry_of_line(x, k) ==
    LET m == link_match(rstrip(lines[k]), TRUE)
    IN  /\ m.matched
        /\ Len(m.indent_str) \div 2 = 0
        /\ IF is_home_page(m.path)
           THEN x = HomeEntry
           ELSE /\ x.k = m.title
                /\ \/ x.v = Str(m.path)
                   \/ /\ x.v.tag = "list"
                      /\ LET first == IF endswith(m.path, <<"/">>) THEN 1 ELSE 2
                         IN  /\ first = 2 =>
                                  x.v.xs # <<>> /\ x.v.xs[1] = Str(m.path)
                             /\ \A j \in first..Len(x.v.xs) :
                                  x.v.xs[j].tag = "map" /\ x.v.xs[j].v.tag = "str"

\* C12: when no line of the outline is a heading, every element of the tree
\* returned is the home entry or the entry of a level-0 entry line; none is
\* a section group.
C12_NoGroupWithoutHeadings ==
    (pc = "parsed" /\ no_heading_lines) =>
        \A i \in 1..Len(nav) : \E k \in 1..Len(lines) : is_entry_of_line(nav[i], k)

C12_Witness ==
    /\ pc = "parsed"
    /\ no_heading_lines
    /\ \E i \in 1..Len(nav) : nav[i] = HomeEntry
    /\ \E i \in 1..Len(nav) : nav[i].v.tag = "list"

\* the lines before line k that open a section: headings with a text other
\* than "Summary"
headings_before(k) ==
    {j \in 1..(k - 1) :
        /\ startswith(rstrip(lines[j]), <<"#">>)
        /\ header_of(j) # <<>>
        /\ ~is_summary(header_of(j))}

\* the lines parse_summary reads as level-0 entries with a path that is not
\* a home page
entry_lines ==
    {k \in 1..Len(lines) :
        LET m == link_match(rstrip(lines[k]), TRUE)
        IN  m.matched /\ Len(m.indent_str) \div 2 = 0 /\ ~is_home_page(m.path)}

\* where the entry of line k is a bare top-level element
top_positions(k) ==
    {i \in 1..Len(nav) : ~is_section_group(nav[i]) /\ is_entry_of_line(nav[i], k)}

\* where the entry of line k is a member of a section group
group_positions(k) ==
    {p \in (1..Len(nav)) \X (1..Len(lines)) :
        /\ is_section_group(nav[p[1]])
        /\ p[2] <= Len(nav[p[1]].v.xs)
        /\ is_entry_of_line(nav[p[1]].v.xs[p[2]], k)}

\* C13: every level-0 entry that is not a home page is in the tree exactly
\* once: as a bare top-level element when no heading before it opened a
\* section, else as a member of a group named after the nearest such heading
\* (outlines whose lines are pairwise distinct).
C13_EntryExactlyOnce ==
    (pc = "parsed" /\ distinct_lines) =>
        \A k \in entry_lines :
            IF headings_before(k) = {}
            THEN Cardinality(top_positions(k)) = 1 /\ group_positions(k) = {}
            ELSE /\ top_positions(k) = {}
                 /\ Cardinality(group_positions(k)) = 1
                 /\ \A p \in group_positions(k) :
                       nav[p[1]].k =
                           normalize_section_name(header_of(Max(headings_before(k))))

C13_Witness ==
    /\ pc = "parsed"
    /\ distinct_lines
    /\ \E k \in entry_lines : headings_before(k) = {}
    /\ \E k \in entry_lines :
          /\ headings_before(k) # {}
          /\ header_of(Max(headings_before(k)))
                # normalize_section_name(header_of(Max(headings_before(k))))

\* the level-0 entry lines that x is the entry of
lines_of_entry(x) == {k \in 1..Len(lines) : is_entry_of_line(x, k)}

\* the level-1 entry lines that x is the child entry of
lines_of_child(x) ==
    {k \in 1..Len(lines) :
        is_level1_entry(k) /\ x = Map(child_of(k).title, Str(child_of(k).path))}

\* both sets of lines are known and every line of S is before every line of T
precedes(S, T) == S # {} /\ T # {} /\ \A a \in S, b \in T : a < b

\* the entries with children in the tree
parent_entries ==
    {e \in map_nodes(Lst(nav)) :
        e.v.tag = "list" /\ e.v.xs # <<>> /\ e.v.xs[1].tag = "str"}

\* C14: in the tree returned, section groups are in the order of their
\* headings, the entries of a group are in the order of their lines, and the
\* children of an entry are in the order of their lines (outlines whose
\* lines are pairwise distinct).
C14_SourceOrder ==
    (pc = "parsed" /\ distinct_lines) =>
        /\ \A i, j \in 1..Len(nav) :
              (i < j /\ is_section_group(nav[i]) /\ is_section_group(nav[j])) =>
                  /\ lines_of_heading(nav[i].k) # {}
                  /\ lines_of_heading(nav[j].k) # {}
                  /\ \A a \in lines_of_heading(nav[i].k), b \in lines_of_heading(nav[j].k) :
                        a <= b
        /\ \A i \in 1..Len(nav) :
              is_section_group(nav[i]) =>
                  \A p, q \in 1..Len(nav[i].v.xs) :
                      p < q => precedes(lines_of_entry(nav[i].v.xs[p]),
                                        lines_of_entry(nav[i].v.xs[q]))
        /\ \A e \in parent_entries :
              \A p, q \in 2..Len(e.v.xs) :
                  p < q => precedes(lines_of_child(e.v.xs[p]), lines_of_child(e.v.xs[q]))

C14_Witness ==
    /\ pc = "parsed"
    /\ distinct_lines
    /\ \E i, j \in 1..Len(nav) :
          /\ i < j
          /\ is_section_group(nav[i])
          /\ is_section_group(nav[j])
          /\ nav[i].k # nav[j].k

\* the heading lines before line k
all_headings_before(k) ==
    {j \in 1..(k - 1) : startswith(rstrip(lines[j]), <<"#">>)}

\* the entry lines whose nearest preceding heading reads "Summary"
entries_after_summary ==
    {k \in entry_lines :
        /\ all_headings_before(k) # {}
        /\ is_summary(header_of(Max(all_headings_before(k))))}

C16_IgnoredLinesNoEffect ==
    (pc = "parsed" /\ returned # <<>>) => nav = returned[1]

(***************************************************************************)
(* Termination and the warning of parse_summary, checked under SpecParse   *)
(***************************************************************************)
\* the missing-home warning is among the notes
warning_noted ==
    \E i \in 1..Len(changes) : changes[i].note = "Warning: No home page found"

\* C17: parse_summary returns for every outline: line_num never passes the
\* number of lines and every step of the loop either reads one more line or
\* returns the tree, so the loop ends after at most Len(lines) steps; and
\* when it has returned, the missing-home warning is noted exactly when the
\* tree holds no home entry.
C17_ReturnsTreeAndWarns ==
    /\ [](pc = "parse" => line_num <= Len(lines))
    /\ [][pc = "parse" =>
            \/ pc' = "parsed" /\ line_num = Len(lines)
            \/ pc' = "parse" /\ line_num' = line_num + 1]_vars
    /\ [](pc = "parsed" =>
            (warning_noted <=> \A i \in 1..Len(nav) : nav[i] # HomeEntry))

C17_Witness ==
    /\ pc = "parsed"
    /\ nav # <<>>
    /\ warning_noted
    /\ \E k \in 1..Len(lines) : child_of(k).matched /\ is_home_page(child_of(k).path)

(***************************************************************************)
(* Properties of run, checked under SpecRun                                *)
(***************************************************************************)
\* C18: in a run with --dry-run no step writes mkdocs.yml or SUMMARY.md and
\* no step renames a file, with or without --rename-files.
C18_DryRunWritesNothing ==
    [][dry_run =>
          /\ mkdocs' = mkdocs
          /\ summary' = summary
          /\ files' = files
          /\ effects' = effects]_vars

C18_Witness ==
    /\ pc = "exited"
    /\ exit_code = 0
    /\ dry_run
    /\ rename_files
    /\ INTRO_FILE \in files
    /\ INDEX_FILE \notin files
    /\ update_summary_references(summary) # summary
    /\ update_nav_in_place(mkdocs, nav) # mkdocs

\* C20: when run has returned, it returned 1 and wrote and renamed nothing
\* if SUMMARY.md or mkdocs.yml did not exist, and it returned 0 if both did.
C20_MissingInputFile ==
    pc = "exited" =>
        IF SUMMARY_MD \notin files \/ MKDOCS_YML \notin files
        THEN /\ exit_code = 1
             /\ effects = <<>>
             /\ mkdocs = contents[1]
             /\ summary = concat(lines)
             /\ contents = <<mkdocs>>
        ELSE exit_code = 0

C20_Witness ==
    /\ pc = "exited"
    /\ SUMMARY_MD \in files
    /\ MKDOCS_YML \notin files
    /\ rename_files
    /\ ~dry_run
    /\ INTRO_FILE \in files
    /\ INDEX_FILE \notin files
    /\ update_summary_references(summary) # summary

\* C19: a run that ends with success, with --dry-run or without, has
\* serialized the tree it built: what it reports rests on the text yaml.dump
\* gives for that tree, the text a run without --dry-run writes.
C19_DryRunSerializes ==
    (pc = "exited" /\ exit_code = 0) => nav_yaml = <<yaml_dump(nav)>>


(***************************************************************************)
(* Properties of the rename step and of the change log, under SpecRun      *)
(***************************************************************************)
renamed == \E i \in 1..Len(effects) : effects[i].op = "rename"

\* C21: with --rename-files and index.md in place, the rename step renames
\* and overwrites no file, leaves SUMMARY.md as it is and goes on to the
\* update of mkdocs.yml; the run then returns 0, and when it is not a dry
\* run the one thing it has written is mkdocs.yml with the tree merged in.
C21_RenameSkippedWhenIndexExists ==
    /\ [][(pc = "rename" /\ rename_files /\ INDEX_FILE \in files) =>
            /\ files' = files
            /\ summary' = summary
            /\ effects' = effects
            /\ changes' = changes
            /\ pc' = "update"]_vars
    /\ []((/\ pc = "exited"
           /\ rename_files
           /\ {SUMMARY_MD, MKDOCS_YML, INDEX_FILE} \subseteq files
           /\ ~renamed) =>
            /\ exit_code = 0
            /\ summary = concat(lines)
            /\ ~dry_run =>
                 /\ mkdocs = update_nav_in_place(contents[1], nav)
                 /\ effects = <<[op |-> "write", file |-> MKDOCS_YML]>>)

C21_Witness ==
    /\ pc = "exited"
    /\ rename_files
    /\ ~dry_run
    /\ INTRO_FILE \in files
    /\ INDEX_FILE \in files
    /\ update_summary_references(summary) # summary
    /\ exit_code = 0
    /\ mkdocs # contents[1]

\* the outline with intro.md replaced by index.md in its link targets, the
\* "](path)" that follows a link's title, and nowhere else
rewrite_link_targets(content) ==
    replace_all(content, <<"]","(","i","n","t","r","o",".","m","d",")">>, <<"]","(","i","n","d","e","x",".","m","d",")">>)

\* C22: once the rename step is over, SUMMARY.md differs from the outline
\* that was read only if intro.md was renamed; when it was renamed, the
\* rename came before the write of SUMMARY.md, and SUMMARY.md is the outline
\* with index.md for intro.md in every link target and every other
\* character as it was.
C22_RenameThenRewriteLinks ==
    pc \in {"update", "exited"} =>
        IF renamed
        THEN /\ effects[1] = [op |-> "rename", file |-> INTRO_FILE]
             /\ INDEX_FILE \in files
             /\ INTRO_FILE \notin files
             /\ summary = rewrite_link_targets(concat(lines))
        ELSE summary = concat(lines)

\* C23: once the change log has been displayed, it holds every note of the
\* run: the notes accumulated are the notes displayed, and no note is added
\* afterwards.
C23_NotesAllDisplayed ==
    pc \in {"rename", "update", "exited"} => displayed = changes

(***************************************************************************)
(* Properties of entries, groups and section names, under SpecParse        *)
(***************************************************************************)
\* the entries of the tree: the top-level elements that are neither the home
\* entry nor a section group, and the members of the section groups
tree_entries ==
    {nav[i] : i \in {i \in 1..Len(nav) :
                        ~is_section_group(nav[i]) /\ nav[i] # HomeEntry}}
        \cup UNION {{nav[i].v.xs[j] : j \in 1..Len(nav[i].v.xs)}
                       : i \in {i \in 1..Len(nav) : is_section_group(nav[i])}}

\* line k as parse_summary reads it
line_match(k) == link_match(rstrip(lines[k]), TRUE)

\* the entry of line k is rendered as a group: the next line is a list item
\* indented more deeply, or the path ends in "/index.md"
is_group_line(k) ==
    has_children(lines, k - 1, 0) \/ endswith(line_match(k).path, <<"/","i","n","d","e","x",".","m","d">>)

\* the elements of xs from position from on are single-key mappings of a
\* title to a path
leaf_maps(xs, from) ==
    \A j \in from..Len(xs) : xs[j].tag = "map" /\ xs[j].v.tag = "str"

own_path_first(x, path) ==
    /\ x.v.tag = "list"
    /\ x.v.xs # <<>>
    /\ x.v.xs[1] = Str(path)
    /\ leaf_maps(x.v.xs, 2)

children_only(x) == x.v.tag = "list" /\ leaf_maps(x.v.xs, 1)

alias_of(name) ==
    CASE name = <<"A","d","v","a","n","c","e","d"," ","T","o","p","i","c","s">> -> <<"A","d","v","a","n","c","e","d">>
      [] name = <<"A","P","I"," ","R","e","f","e","r","e","n","c","e">>   -> <<"A","P","I">>
      [] name = <<"D","e","v","e","l","o","p","e","r"," ","G","u","i","d","e">> -> <<"D","e","v","e","l","o","p","m","e","n","t">>
      [] OTHER                     -> name

\* the heading lines among the first n lines, "Summary" headings aside
section_headings(n) ==
    {j \in 1..n :
        startswith(rstrip(lines[j]), <<"#">>) /\ ~is_summary(header_of(j))}

\* C25: the name of the section that is open is the alias of the last
\* heading read, or the heading's text when the table has no alias for it;
\* and in the tree returned every entry under a heading is a member of a
\* group keyed by that name.
C25_SectionNameAlias ==
    /\ current_section_name # <<>> =>
          /\ section_headings(line_num) # {}
          /\ current_section_name[1] =
                alias_of(header_of(Max(section_headings(line_num))))
    /\ pc = "parsed" =>
          \A k \in entry_lines :
              section_headings(k) # {} =>
                  \E i \in 1..Len(nav) :
                      /\ nav[i].k = alias_of(header_of(Max(section_headings(k))))
                      /\ nav[i].v.tag = "list"
                      /\ \E j \in 1..Len(nav[i].v.xs) :
                            /\ nav[i].v.xs[j].tag = "map"
                            /\ nav[i].v.xs[j].k = line_match(k).title

C25_Witness ==
    /\ pc = "parsed"
    /\ \E i \in 1..Len(nav) : nav[i].k \in {<<"A","P","I">>, <<"D","e","v","e","l","o","p","m","e","n","t">>}
    /\ current_section_name = <<<<"N","o","t","e","s">>>>

(***************************************************************************)
(* Two calls of parse_summary, checked under SpecRepeat                    *)
(***************************************************************************)
\* C26: the second call of parse_summary on the same instance and the same
\* outline returns a tree equal to the tree of the first call, while the
\* notes of both calls have accumulated in self.changes.
C26_SameTreeAgain ==
    (pc = "parsed" /\ returned # <<>>) =>
        /\ nav = returned[1]
        /\ \E n \in 0..Len(changes) :
              /\ Len(changes) = 2 * n
              /\ SubSeq(changes, 1, n) = SubSeq(changes, n + 1, 2 * n)

C26_Witness ==
    /\ pc = "parsed"
    /\ returned # <<>>
    /\ Len(nav) >= 2
    /\ Len(changes) >= 4

(***************************************************************************)
(* Properties of indented lines, checked under SpecParse                   *)
(***************************************************************************)
\* the mapping of line c is in the list of the entry of the level-0 line k
child_in_entry(c, k) ==
    \E e \in map_nodes(Lst(nav)) :
        /\ e.k = line_match(k).title
        /\ e.v.tag = "list"
        /\ \E j \in 1..Len(e.v.xs) :
              e.v.xs[j] = Map(child_of(c).title, Str(child_of(c).path))

\* line i ends the collection of children: a link line at indent level 0
\* or a heading
ends_children(i) ==
    \/ line_match(i).matched /\ Len(line_match(i).indent_str) \div 2 = 0
    \/ startswith(rstrip(lines[i]), <<"#">>)

\* C27: a level-1 line is a child of at most one entry of the tree, and the
\* line of that entry comes before it with no level-0 link line and no
\* heading in between (outlines whose lines are pairwise distinct).
C27_ChildrenUpToNextEntry ==
    (pc = "parsed" /\ distinct_lines) =>
        \A c \in 1..Len(lines) :
            is_level1_entry(c) =>
                LET parents == {k \in entry_lines : child_in_entry(c, k)}
                IN  /\ Cardinality(parents) <= 1
                    /\ \A k \in parents :
                          k < c /\ \A i \in (k + 1)..(c - 1) : ~ends_children(i)

\* the link lines at indent level 1 or deeper
indented_lines ==
    {k \in 1..Len(lines) :
        line_match(k).matched /\ Len(line_match(k).indent_str) \div 2 > 0}

\* C28: in the tree returned no top-level element and no member of a section
\* group is the entry of an indented link line, and the home entry is there
\* only for a level-0 line: an indented line is in the tree as a child of an
\* entry or not at all (outlines whose lines are pairwise distinct).
C28_IndentedNeverTopLevel ==
    (pc = "parsed" /\ distinct_lines) =>
        /\ \A k \in indented_lines :
              /\ \A i \in 1..Len(nav) : nav[i].k # line_match(k).title
              /\ \A i \in 1..Len(nav) :
                    is_section_group(nav[i]) =>
                        \A j \in 1..Len(nav[i].v.xs) :
                            nav[i].v.xs[j].k # line_match(k).title
        /\ (\E i \in 1..Len(nav) : nav[i] = HomeEntry) =>
              \E k \in 1..Len(lines) :
                  /\ line_match(k).matched
                  /\ Len(line_match(k).indent_str) \div 2 = 0
                  /\ is_home_page(line_match(k).path)

C28_Witness ==
    /\ pc = "parsed"
    /\ distinct_lines
    /\ \E k \in indented_lines : k \in processed_lines
    /\ \E k \in indented_lines :
          k \notin processed_lines /\ is_home_page(line_match(k).path)

\* the link lines without "- " after the first line of the outline
later_bare_links ==
    {k \in 2..Len(lines) : line_match(k).matched /\ ~child_of(k).matched}

\* C29: a link line without "- " that is not the first line of the outline
\* is not an entry: nothing in the tree returned has its title, and the home
\* entry is there only for a level-0 line that has its "- " or is the first
\* line.
C29_BareLinkOnFirstLineOnly ==
    pc = "parsed" =>
        /\ \A k \in later_bare_links :
              \A e \in map_nodes(Lst(nav)) : e.k # line_match(k).title
        /\ (\E i \in 1..Len(nav) : nav[i] = HomeEntry) =>
              \E k \in 1..Len(lines) :
                  is_level0_entry(k) /\ is_home_page(entry_of(k).path)

(***************************************************************************)
(* Two runs on one mkdocs.yml, checked under SpecConcurrent                *)
(***************************************************************************)
\* mkdocs.yml after the run first and then the run second, one after the
\* other
serial(first, second) ==
    update_nav_in_place(update_nav_in_place(contents[1], runs[first].nav),
                        runs[second].nav)

\* C30: runs on one mkdocs.yml are not kept apart: a run writes the text it
\* computed from the content it had read, whatever the file holds by then.
\* C30_Witness is the end of an interleaving in which both runs read the
\* file before either writes it, each write is whole, and the file differs
\* from what the runs give one after the other in either order.
C30_WritesWhatItRead ==
    [][\A i \in DOMAIN runs :
          (runs[i].pc = "write" /\ runs'[i].pc = "done") =>
              LET new_content == update_nav_in_place(runs[i].content, runs[i].nav)
              IN  startswith(mkdocs', new_content)]_vars

C30_Witness ==
    /\ pc = "concurrent"
    /\ \A i \in 1..2 : runs[i].pc = "done" /\ runs[i].content = contents[1]
    /\ Len(contents) = 5
    /\ contents[2] = <<>>
    /\ contents[3] # <<>>
    /\ contents[4] = <<>>
    /\ runs[1].nav # runs[2].nav
    /\ mkdocs \notin {serial(1, 2), serial(2, 1)}
====
